---------------------------- MODULE Spec2Model ----------------------------
(***************************************************************************)
(* Model of src/chunk_type.rs of pngme: the 4-byte PNG chunk type tag.     *)
(*                                                                         *)
(* A text (&str) is a sequence of Unicode scalar values; a byte is a       *)
(* number in 0..255; the array [u8; 4] is a sequence of four bytes.  Rust  *)
(* indexes value[0..3]; the model indexes value[1..4].                     *)
(*                                                                         *)
(* One behaviour is one use of the type: an input is chosen, a ChunkType   *)
(* is constructed from it (from_str or try_from), and the methods are      *)
(* called on the constructed value.  is_valid is modelled step by step,    *)
(* since it calls from_str(..).unwrap() once per allow-listed name.        *)
(***************************************************************************)
EXTENDS Naturals, Sequences, FiniteSets

VARIABLES
    input,        \* the argument of the constructor: a text or a byte array
    chunk,        \* Result<ChunkType, _> of the constructor
    pc,           \* "start", "ready", "failed", "map", "contains", "panic"
    ret,          \* the last method called on the chunk and what it returned
    i,            \* is_valid: index of the next allow-listed name to map
    valid_types,  \* is_valid: the ChunkTypes built so far (line 19)
    depth         \* number of is_valid frames on the call stack

vars == <<input, chunk, pc, ret, i, valid_types, depth>>

---------------------------------------------------------------------------
(* Bounds of the model. *)

\* longest generated input text, in characters
MaxLen == 5

\* deepest call stack explored
MaxDepth == 3

---------------------------------------------------------------------------
(* Bytes and bit operations. *)

RECURSIVE BitAnd(_, _)
\* the & operator on u8
BitAnd(a, b) ==
    IF a = 0 \/ b = 0 THEN 0
    ELSE (a % 2) * (b % 2) + 2 * BitAnd(a \div 2, b \div 2)

\* the << operator, on values that do not overflow a u8
Shl(a, n) == a * 2^n

---------------------------------------------------------------------------
(* Texts: UTF-8, as &str and String hold it. *)

\* the bytes of one Unicode scalar value in UTF-8
EncodeChar(c) ==
    IF c < 128 THEN <<c>>
    ELSE IF c < 2048 THEN <<192 + (c \div 64), 128 + (c % 64)>>
    ELSE IF c < 65536
        THEN <<224 + (c \div 4096), 128 + ((c \div 64) % 64), 128 + (c % 64)>>
    ELSE <<240 + (c \div 262144), 128 + ((c \div 4096) % 64),
           128 + ((c \div 64) % 64), 128 + (c % 64)>>

RECURSIVE as_bytes(_)
\* str::as_bytes: the UTF-8 bytes of the text
as_bytes(s) ==
    IF s = <<>> THEN <<>> ELSE EncodeChar(Head(s)) \o as_bytes(Tail(s))

\* the byte at position k, or 0 past the end (safe_get of Utf8Chunks)
safe_get(v, k) == IF k <= Len(v) THEN v[k] ELSE 0

\* a UTF-8 continuation byte, 10xxxxxx
IsCont(b) == BitAnd(b, 192) = 128

\* length of the UTF-8 sequence a lead byte announces, 0 for no lead byte
utf8_char_width(b) ==
    IF b < 128 THEN 1
    ELSE IF b >= 194 /\ b <= 223 THEN 2
    ELSE IF b >= 224 /\ b <= 239 THEN 3
    ELSE IF b >= 240 /\ b <= 244 THEN 4
    ELSE 0

\* a valid second byte after the lead byte of a 3-byte sequence
Second3(b, c) ==
    \/ b = 224 /\ c >= 160 /\ c <= 191
    \/ b >= 225 /\ b <= 236 /\ c >= 128 /\ c <= 191
    \/ b = 237 /\ c >= 128 /\ c <= 159
    \/ b >= 238 /\ b <= 239 /\ c >= 128 /\ c <= 191

\* a valid second byte after the lead byte of a 4-byte sequence
Second4(b, c) ==
    \/ b = 240 /\ c >= 144 /\ c <= 191
    \/ b >= 241 /\ b <= 243 /\ c >= 128 /\ c <= 191
    \/ b = 244 /\ c >= 128 /\ c <= 143

\* the lossy decoder at position k: the bytes it consumes there, and the
\* character they decode to (U+FFFD for a maximal ill-formed subsequence)
DecodeAt(v, k) ==
    LET b  == v[k]
        w  == utf8_char_width(b)
        c2 == safe_get(v, k + 1)
        c3 == safe_get(v, k + 2)
        c4 == safe_get(v, k + 3)
        bad(n) == [n |-> n, cp |-> 65533]
    IN  IF w = 1 THEN [n |-> 1, cp |-> b]
        ELSE IF w = 2 THEN
            IF ~IsCont(c2) THEN bad(1)
            ELSE [n |-> 2, cp |-> (b - 192) * 64 + (c2 - 128)]
        ELSE IF w = 3 THEN
            IF ~Second3(b, c2) THEN bad(1)
            ELSE IF ~IsCont(c3) THEN bad(2)
            ELSE [n |-> 3,
                  cp |-> (b - 224) * 4096 + (c2 - 128) * 64 + (c3 - 128)]
        ELSE IF w = 4 THEN
            IF ~Second4(b, c2) THEN bad(1)
            ELSE IF ~IsCont(c3) THEN bad(2)
            ELSE IF ~IsCont(c4) THEN bad(3)
            ELSE [n |-> 4,
                  cp |-> (b - 240) * 262144 + (c2 - 128) * 4096
                         + (c3 - 128) * 64 + (c4 - 128)]
        ELSE bad(1)

RECURSIVE LossyFrom(_, _)
\* the characters decoded from position k on, given what the decoder does
\* at each position
LossyFrom(decoded, k) ==
    IF k > Len(decoded) THEN <<>>
    ELSE <<decoded[k].cp>> \o LossyFrom(decoded, k + decoded[k].n)

\* String::from_utf8_lossy
from_utf8_lossy(v) == LossyFrom([k \in 1..Len(v) |-> DecodeAt(v, k)], 1)

---------------------------------------------------------------------------
(* Result values. *)

Ok(v) == [ok |-> TRUE, value |-> v]
Err(e) == [ok |-> FALSE, err |-> e]

\* Result::unwrap on an Ok value; on an Err the caller panics
unwrap(r) == r.value

---------------------------------------------------------------------------
(* ChunkType and its constructors. *)

\* struct ChunkType { value: [u8; 4] }
ChunkType(bytes) == [value |-> bytes]

\* try_into that keeps the first four bytes of a longer slice
try_into_truncating(slice) ==
    IF Len(slice) >= 4 THEN Ok(SubSeq(slice, 1, 4))
    ELSE Err("TryFromSliceError")

\* <[u8; 4]>::try_from(&[u8]): succeeds on a slice of length 4 only
try_into(slice) ==
    IF Len(slice) = 4 THEN Ok(slice) ELSE Err("TryFromSliceError")

\* try_from that accepts ASCII bytes only
try_from_ascii_only(bytes) ==
    IF \A k \in 1..4 : bytes[k] < 128 THEN Ok([value |-> bytes])
    ELSE Err("()")

\* impl TryFrom<[u8; 4]> for ChunkType
try_from(bytes) == Ok(ChunkType(bytes))

\* from_str with the commented-out lines in force
from_str_validates == TRUE

\* from_str as it stands calls nothing of this crate: the lines that would
\* call is_valid() on the new chunk are commented out
from_str_calls_is_valid == FALSE

\* impl FromStr for ChunkType
from_str(s) ==
    LET r == try_into(as_bytes(s))
    IN  IF r.ok THEN Ok(ChunkType(r.value)) ELSE Err("SizeError")

\* an equality that leaves the last byte out
eq_first_three(a, b) == \A k \in 1..3 : a.value[k] = b.value[k]

\* derived PartialEq: field by field, element by element
eq(a, b) == \A k \in 1..4 : a.value[k] = b.value[k]

---------------------------------------------------------------------------
(* Methods. *)

\* fn bytes
bytes(self) == self.value

\* fn is_critical: bit 5 of value[0]
is_critical(self) == BitAnd(self.value[1], Shl(1, 5)) = 0

\* fn is_public: bit 5 of value[1]
is_public(self) == BitAnd(self.value[2], Shl(1, 5)) = 0

\* the reserved bit looked for in the last byte
is_reserved_bit_valid_last_byte(self) ==
    BitAnd(self.value[4], Shl(1, 5)) = 0

\* fn is_reserved_bit_valid: bit 5 of value[2]
is_reserved_bit_valid(self) == BitAnd(self.value[3], Shl(1, 5)) = 0

\* is_safe_to_copy with the polarity of the other three predicates
is_safe_to_copy_unset(self) == BitAnd(self.value[4], Shl(1, 5)) = 0

\* fn is_safe_to_copy: bit 5 of value[3]
is_safe_to_copy(self) == BitAnd(self.value[4], Shl(1, 5)) # 0

\* Display written with {:?}: the text in double quotes
to_string_debug(self) == <<34>> \o from_utf8_lossy(self.value) \o <<34>>

\* impl fmt::Display
to_string(self) == from_utf8_lossy(self.value)

\* the literal with "tEXt" typed "TEXT"
valid_names_uppercase ==
    << <<73, 72, 68, 82>>, <<80, 76, 84, 69>>, <<73, 68, 65, 84>>,
       <<73, 69, 78, 68>>, <<84, 69, 88, 84>>, <<122, 84, 88, 116>>,
       <<105, 84, 88, 116>>, <<112, 72, 89, 115>> >>

\* the literal of is_valid: "IHDR", "PLTE", "IDAT", "IEND",
\* "tEXt", "zTXt", "iTXt", "pHYs"
valid_names ==
    << <<73, 72, 68, 82>>, <<80, 76, 84, 69>>, <<73, 68, 65, 84>>,
       <<73, 69, 78, 68>>, <<116, 69, 88, 116>>, <<122, 84, 88, 116>>,
       <<105, 84, 88, 116>>, <<112, 72, 89, 115>> >>

\* <[ChunkType]>::contains: some element equal to x
contains(list, x) == \E k \in 1..Len(list) : eq(list[k], x)

---------------------------------------------------------------------------
(* Inputs. *)

\* characters of the generated texts: '1', 'S', 't', U+00E9 (2 bytes),
\* U+20AC (3 bytes), U+1F600 (4 bytes)
CharAlphabet == {49, 83, 116, 233, 8364, 128512}

\* the texts the tests use, and near misses of the allow-listed names
NamedTexts ==
    { <<82, 117, 83, 116>>,        \* "RuSt"
      <<82, 117, 115, 116>>,       \* "Rust"
      <<114, 117, 83, 116>>,       \* "ruSt"
      <<82, 85, 83, 116>>,         \* "RUSt"
      <<82, 117, 83, 84>>,         \* "RuST"
      <<82, 117, 49, 116>>,        \* "Ru1t"
      <<82, 117>>,                 \* "Ru"
      <<82, 117, 115, 116, 116>>,  \* "Rustt"
      <<105, 104, 100, 114>>,      \* "ihdr"
      <<84, 69, 88, 84>>,          \* "TEXT"
      <<116, 69, 120, 116>>,       \* "tExt"
      <<32, 126, 33, 64>>,         \* " ~!@", printable ASCII at its ends
      <<73, 72, 68, 82>>, <<80, 76, 84, 69>>, <<73, 68, 65, 84>>,
      <<73, 69, 78, 68>>, <<116, 69, 88, 116>>, <<122, 84, 88, 116>>,
      <<105, 84, 88, 116>>, <<112, 72, 89, 115>> }

Texts == UNION {[1..n -> CharAlphabet] : n \in 0..MaxLen} \cup NamedTexts

\* bytes of the generated arrays: '1', 'S', 't', two continuation bytes,
\* lead bytes of 2, 3 and 4 byte sequences, and a byte UTF-8 never uses
ByteAlphabet == {49, 83, 116, 128, 169, 195, 226, 240, 255}

ByteArrays ==
    [1..4 -> ByteAlphabet] \cup {t \in NamedTexts : Len(t) = 4}

Inputs ==
    {[kind |-> "text", s |-> s] : s \in Texts}
        \cup {[kind |-> "bytes", b |-> b] : b \in ByteArrays}

\* the chunks the constructed one is compared with: each of its bytes
\* changed alone (bit 5 flipped, or the next byte value), and the same bytes
\* through try_from
Flip5(b) == IF (b \div 32) % 2 = 0 THEN b + 32 ELSE b - 32

Operands(self) ==
    {ChunkType([self.value EXCEPT ![k] = Flip5(self.value[k])]) : k \in 1..4}
    \cup {ChunkType([self.value EXCEPT ![k] = (self.value[k] + 1) % 256])
        : k \in 1..4}
    \cup {unwrap(try_from(self.value))}

---------------------------------------------------------------------------
(* The state machine. *)

NoRet == [op |-> "none"]

Init ==
    /\ input \in Inputs
    /\ chunk = Err("unconstructed")
    /\ pc = "start"
    /\ ret = NoRet
    /\ i = 0
    /\ valid_types = <<>>
    /\ depth = 0

\* ChunkType::from_str(s)
FromStr ==
    /\ pc = "start"
    /\ input.kind = "text"
    /\ chunk' = from_str(input.s)
    /\ pc' = IF chunk'.ok THEN "ready" ELSE "failed"
    /\ UNCHANGED <<input, ret, i, valid_types, depth>>

\* ChunkType::try_from(bytes)
TryFrom ==
    /\ pc = "start"
    /\ input.kind = "bytes"
    /\ chunk' = try_from(input.b)
    /\ pc' = IF chunk'.ok THEN "ready" ELSE "failed"
    /\ UNCHANGED <<input, ret, i, valid_types, depth>>

\* a method that returns at once: op names it, val is what it returns
Return(op, val) ==
    /\ pc = "ready"
    /\ ret' = [op |-> op, val |-> val]
    /\ UNCHANGED <<input, chunk, pc, i, valid_types, depth>>

Bytes == Return("bytes", bytes(unwrap(chunk)))

IsCritical == Return("is_critical", is_critical(unwrap(chunk)))

IsPublic == Return("is_public", is_public(unwrap(chunk)))

IsReservedBitValid ==
    Return("is_reserved_bit_valid", is_reserved_bit_valid(unwrap(chunk)))

IsSafeToCopy == Return("is_safe_to_copy", is_safe_to_copy(unwrap(chunk)))

ToString == Return("to_string", to_string(unwrap(chunk)))

\* chunk == other
Equals ==
    /\ pc = "ready"
    /\ \E other \in Operands(unwrap(chunk)) :
          ret' = [op |-> "eq", other |-> other,
                  val |-> eq(unwrap(chunk), other)]
    /\ UNCHANGED <<input, chunk, pc, i, valid_types, depth>>

\* chunk == ChunkType::try_from(the bytes of the text).unwrap(), for a
\* chunk built by from_str
EqualsOtherPath ==
    /\ pc = "ready"
    /\ input.kind = "text"
    /\ LET other == unwrap(try_from(as_bytes(input.s)))
       IN  ret' = [op |-> "eq_paths", other |-> other,
                   val |-> eq(unwrap(chunk), other)]
    /\ UNCHANGED <<input, chunk, pc, i, valid_types, depth>>

\* is_valid is entered
IsValidCall ==
    /\ pc = "ready"
    /\ pc' = "map"
    /\ i' = 1
    /\ valid_types' = <<>>
    /\ depth' = 1
    /\ ret' = [op |-> "is_valid", done |-> FALSE]
    /\ UNCHANGED <<input, chunk>>

\* line 19, one element of the map: from_str(name).unwrap()
IsValidMap ==
    /\ pc = "map"
    /\ i <= Len(valid_names)
    /\ LET r == from_str(valid_names[i])
       IN  IF from_str_calls_is_valid /\ r.ok
           THEN \* from_str enters is_valid on the chunk it built
                /\ depth < MaxDepth
                /\ depth' = depth + 1
                /\ i' = 1
                /\ valid_types' = <<>>
                /\ pc' = "map"
           ELSE IF r.ok
           THEN /\ valid_types' = Append(valid_types, unwrap(r))
                /\ i' = i + 1
                /\ pc' = "map"
                /\ depth' = depth
           ELSE \* unwrap of an Err: panic
                /\ pc' = "panic"
                /\ UNCHANGED <<i, valid_types, depth>>
    /\ UNCHANGED <<input, chunk, ret>>

\* line 19 is through: the array is complete
IsValidMapDone ==
    /\ pc = "map"
    /\ i > Len(valid_names)
    /\ pc' = "contains"
    /\ UNCHANGED <<input, chunk, ret, i, valid_types, depth>>

\* line 20: valid_types.contains(self), and the return
IsValidContains ==
    /\ pc = "contains"
    /\ ret' = [op |-> "is_valid", done |-> TRUE,
               val |-> contains(valid_types, unwrap(chunk))]
    /\ pc' = "ready"
    /\ depth' = 0
    /\ i' = 0
    /\ valid_types' = <<>>
    /\ UNCHANGED <<input, chunk>>

Next ==
    \/ FromStr
    \/ TryFrom
    \/ Bytes
    \/ IsCritical
    \/ IsPublic
    \/ IsReservedBitValid
    \/ IsSafeToCopy
    \/ ToString
    \/ Equals
    \/ EqualsOtherPath
    \/ IsValidCall
    \/ IsValidMap
    \/ IsValidMapDone
    \/ IsValidContains

Spec == Init /\ [][Next]_vars

---------------------------------------------------------------------------
(* Vocabulary of the properties, independent of the operators above. *)

\* the stored bytes of the constructed chunk
Stored == chunk.value.value

\* bit 5 (0x20) of a byte
Bit5(b) == (b \div 32) % 2

IsAsciiLetter(b) == (b >= 65 /\ b <= 90) \/ (b >= 97 /\ b <= 122)

\* the eight allow-listed tags, as bytes
AllowList ==
    { <<73, 72, 68, 82>>,      \* IHDR
      <<80, 76, 84, 69>>,      \* PLTE
      <<73, 68, 65, 84>>,      \* IDAT
      <<73, 69, 78, 68>>,      \* IEND
      <<116, 69, 88, 116>>,    \* tEXt
      <<122, 84, 88, 116>>,    \* zTXt
      <<105, 84, 88, 116>>,    \* iTXt
      <<112, 72, 89, 115>> }   \* pHYs

\* number of bytes a character takes in UTF-8
Utf8Len(c) == IF c < 128 THEN 1 ELSE IF c < 2048 THEN 2
              ELSE IF c < 65536 THEN 3 ELSE 4

RECURSIVE ByteLen(_)
\* byte length of a text
ByteLen(s) == IF s = <<>> THEN 0 ELSE Utf8Len(Head(s)) + ByteLen(Tail(s))

FromText(s) == input.kind = "text" /\ input.s = s

Constructed == pc # "start"

IsValidReturned == ret.op = "is_valid" /\ ret.done

RuSt == <<82, 117, 83, 116>>
Rust == <<82, 117, 115, 116>>
RuST == <<82, 117, 83, 84>>

---------------------------------------------------------------------------
(* The properties. *)

C2_LettersWithReservedBitAreValid ==
    (/\ IsValidReturned
     /\ \A k \in 1..4 : IsAsciiLetter(Stored[k])
     /\ Bit5(Stored[3]) = 0) => ret.val = TRUE

\* C3 (as the test test_invalid_chunk_is_valid has it): from_str of a
\* 4-byte text holding a byte that is no ASCII letter, such as "Ru1t", is
\* an Err.
C3_NonLetterTextIsErr ==
    (/\ Constructed
     /\ input.kind = "text"
     /\ ByteLen(input.s) = 4
     /\ \E k \in 1..Len(input.s) : ~IsAsciiLetter(input.s[k])) => ~chunk.ok

C5_TryFromBytesRoundTrip ==
    input.kind = "bytes" =>
        /\ Constructed => chunk.ok
        /\ ret.op = "bytes" => ret.val = input.b

\* bytes() has returned on a chunk built from an array that is no text
C5_Witness ==
    /\ input.kind = "bytes"
    /\ input.b = <<255, 128, 49, 240>>
    /\ ret.op = "bytes"
    /\ ret.val = <<255, 128, 49, 240>>

\* C6: the chunk built from a text of four printable ASCII characters
\* renders as that text.
C6_DisplayRoundTrip ==
    (/\ ret.op = "to_string"
     /\ input.kind = "text"
     /\ Len(input.s) = 4
     /\ \A k \in 1..4 : input.s[k] >= 32 /\ input.s[k] <= 126)
        => ret.val = input.s

\* the chunk built from "RuSt" has been rendered
C6_Witness == ret.op = "to_string" /\ FromText(RuSt) /\ ret.val = RuSt

\* C7: two chunks are equal exactly when their four bytes match: the chunk
\* from a text equals the chunk from the text's bytes, and chunks that
\* differ in one byte are unequal.
C7_EqIffSameBytes ==
    /\ ret.op \in {"eq", "eq_paths"} =>
          (ret.val <=> (Stored = ret.other.value))
    /\ ret.op = "eq_paths" => ret.val = TRUE
    /\ (ret.op = "eq" /\ \E k \in 1..4 : Stored[k] # ret.other.value[k])
          => ret.val = FALSE

\* the chunk from "RuSt" has been compared with one that differs from it in
\* the last byte only
C7_Witness ==
    /\ ret.op = "eq"
    /\ FromText(RuSt)
    /\ ret.other.value = <<82, 117, 83, 84>>
    /\ ret.val = FALSE

\* C8: is_critical, is_public and is_reserved_bit_valid are true when bit 5
\* of byte 0, 1, 2 is unset, is_safe_to_copy when bit 5 of byte 3 is set.
C8_BitPredicates ==
    /\ ret.op = "is_critical" => (ret.val <=> Bit5(Stored[1]) = 0)
    /\ ret.op = "is_public" => (ret.val <=> Bit5(Stored[2]) = 0)
    /\ ret.op = "is_reserved_bit_valid" => (ret.val <=> Bit5(Stored[3]) = 0)
    /\ ret.op = "is_safe_to_copy" => (ret.val <=> Bit5(Stored[4]) = 1)
    /\ FromText(RuSt) =>
          /\ ret.op = "is_critical" => ret.val = TRUE
          /\ ret.op = "is_public" => ret.val = FALSE
          /\ ret.op = "is_reserved_bit_valid" => ret.val = TRUE
          /\ ret.op = "is_safe_to_copy" => ret.val = TRUE
    /\ (FromText(Rust) /\ ret.op = "is_reserved_bit_valid")
          => ret.val = FALSE
    /\ (FromText(RuST) /\ ret.op = "is_safe_to_copy") => ret.val = FALSE

\* is_safe_to_copy has returned false on the chunk from "RuST"
C8_Witness ==
    FromText(RuST) /\ ret.op = "is_safe_to_copy" /\ ret.val = FALSE

\* a text: one to four characters, each a Unicode scalar value
IsText(s) ==
    /\ Len(s) >= 1
    /\ Len(s) <= 4
    /\ \A k \in 1..Len(s) : s[k] <= 1114111

\* a byte array [u8; 4]
IsByteArray(v) == Len(v) = 4 /\ \A k \in 1..4 : v[k] <= 255

=============================================================================
